---- MODULE Spec2Model ----
(***************************************************************************)
(* Conversation-state engine of a chat node (src/src/components/           *)
(* ChatNode.tsx) together with the server relay of the model stream        *)
(* (src/src/functions/chat.ts).                                            *)
(*                                                                         *)
(* One chat node is modelled.  Every handler of the component is one       *)
(* action; a handler runs against the committed component state (React     *)
(* flushes the updates of a discrete event before the next event is        *)
(* dispatched), and the asynchronous part of handleSend / handleSaveEdit   *)
(* is split at its await points: the request, and every reader.read().     *)
(*                                                                         *)
(* Text is a sequence of one-character strings, so that trim and           *)
(* concatenation are computed and not assumed.                             *)
(*                                                                         *)
(* The clock (Date.now()) is a variable.  It is free to stand still        *)
(* between two user events, and it advances by at least one millisecond    *)
(* while a request to the server is awaited (a network round trip).        *)
(*                                                                         *)
(* The canvas around the node is modelled as far as the node's context     *)
(* monitor reads it: the other nodes with their exported text, and the     *)
(* edges that end in this node.  The monitor is a passive effect: it runs  *)
(* after the render that follows a change of nodes or edges.               *)
(*                                                                         *)
(* lastOp is a history variable: it names the handler that ran last       *)
(* ("send", "saveEdit", "undo", "redo", "observe", "inject" for a run of   *)
(* the monitor that appended a message, "type" for a change of a context   *)
(* node's textarea) or "other".  An exchange record                        *)
(* also carries h0 and rcvd, which no code reads: the history right after  *)
(* the handler returned, and the chunks the reader delivered so far.       *)
(*                                                                         *)
(* The later version of the route (src/unnamed/part_004) keeps an undo     *)
(* history of the canvas: history, historyIndex and isUndoRedoAction.      *)
(* CanvasSpec models it, its tracking effect being part of the handler     *)
(* whose render it follows; there lastOp is "change", "canvasUndo" or      *)
(* "canvasRedo".  The other specifications leave the three variables       *)
(* alone.                                                                  *)
(***************************************************************************)
EXTENDS Integers, Sequences, FiniteSets, TLC

\* ------------------------------------------------------------------ bounds
MaxTime == 2
MaxMsgs == 3
MaxReplies == 1
MaxNodeId == 2
MaxChanges == 2

\* The texts a user can type into the message box and into the edit box.
Inputs == { <<" ">>, <<" ", "a", " ">> }
EditInputs == { <<" ">>, <<"b", " ">> }
\* The text the model answers with.  The gateway delivers it in deltas of
\* any size (an empty delta included) and may stop anywhere in it.
Reply == << "x", "y" >>
EmptyText == << >>
\* The texts a context node can hold.
Texts == { << >>, <<"p">>, <<"q">> }

VARIABLES
    now,               \* Date.now()
    mounted,           \* the node is on the canvas (component mounted)
    messages,          \* useState<Message[]>
    deletedMessages,   \* useState<Message[]>: the redo set
    input,             \* useState('')
    isLoading,         \* useState(false): the in-flight lock
    replyingTo,        \* useState<Message | null>: << >> or <<message>>
    editingMessageId,  \* useState<string | null>: NoId or an id
    editingContent,    \* useState('')
    exchanges,         \* the running async continuations of send / edit
    nodeIdCounter,     \* useRef(2) of the canvas
    nodes,             \* the other nodes of the canvas, in creation order
    edges,             \* the sources of the edges into this node, in edge order
    connectedContextsRef,  \* useRef(new Map()): << id, text >> in insertion order
    selectedModel,     \* useState<AIModel>('Claude')
    temperature,       \* useState(0.7), in hundredths
    history,           \* useState<HistoryState[]> of the route, oldest first
    historyIndex,      \* useState(0) of the route
    isUndoRedoAction,  \* useRef(false) of the route
    lastOp             \* history variable: the handler that ran last

vars == << now, mounted, messages, deletedMessages, input, isLoading,
           replyingTo, editingMessageId, editingContent, exchanges,
           nodeIdCounter, nodes, edges, connectedContextsRef,
           selectedModel, temperature,
           history, historyIndex, isUndoRedoAction, lastOp >>

\* what the canvas and the context monitor own
canvas == << nodeIdCounter, nodes, edges, connectedContextsRef >>

\* the settings panel of the node
settings == << selectedModel, temperature >>

\* the undo history of the canvas, which the later version of the route keeps
tracking == << history, historyIndex, isUndoRedoAction >>

\* ------------------------------------------------------------------ text

IsSpace(c) == c = " "

RECURSIVE TrimStart(_)
TrimStart(s) ==
    IF s = << >> THEN s
    ELSE IF IsSpace(Head(s)) THEN TrimStart(Tail(s)) ELSE s

RECURSIVE TrimEnd(_)
TrimEnd(s) ==
    IF s = << >> THEN s
    ELSE IF IsSpace(s[Len(s)]) THEN TrimEnd(SubSeq(s, 1, Len(s) - 1)) ELSE s

\* String.prototype.trim
Trim(s) == TrimEnd(TrimStart(s))

RECURSIVE Flatten(_)
Flatten(ss) == IF ss = << >> THEN << >> ELSE Head(ss) \o Flatten(Tail(ss))

\* --------------------------------------------------------------- messages

NoId == << >>
\* Date.now().toString(): an id made of a clock value alone
TimeId(t) == << "", "", t >>

NoReply == << >>

\* a user message that points at the message replied to
UserMessage_LiveReply(t, text, reply) ==
    [ id |-> TimeId(t), role |-> "user", content |-> Trim(text),
      replyTo |-> IF reply = << >> THEN NoReply
                  ELSE << [ id |-> reply[1].id ] >> ]

UserMessage(t, text, reply) ==
    [ id |-> TimeId(t), role |-> "user", content |-> Trim(text),
      replyTo |-> IF reply = << >> THEN NoReply
                  ELSE << [ id |-> reply[1].id, content |-> reply[1].content,
                            role |-> reply[1].role ] >> ]

Placeholder(pid) ==
    [ id |-> pid, role |-> "assistant", content |-> EmptyText,
      replyTo |-> NoReply ]

\* the content written into the last message of the history
SetContent_Last(msgs, id, text) ==
    [ i \in 1..Len(msgs) |->
        IF i = Len(msgs) THEN [ msgs[i] EXCEPT !.content = text ]
        ELSE msgs[i] ]

\* prev.map(msg => msg.id === id ? { ...msg, content } : msg)
SetContent(msgs, id, text) ==
    [ i \in 1..Len(msgs) |->
        IF msgs[i].id = id THEN [ msgs[i] EXCEPT !.content = text ]
        ELSE msgs[i] ]

\* prev.filter(msg => msg.id !== id)
RECURSIVE RemoveId(_, _)
RemoveId(msgs, id) ==
    IF msgs = << >> THEN << >>
    ELSE IF Head(msgs).id = id THEN RemoveId(Tail(msgs), id)
         ELSE << Head(msgs) >> \o RemoveId(Tail(msgs), id)

\* messages.findIndex(m => m.id === id): 0 stands for -1
FindIndex(msgs, id) ==
    IF \E i \in 1..Len(msgs) : msgs[i].id = id
    THEN CHOOSE i \in 1..Len(msgs) :
            /\ msgs[i].id = id
            /\ \A j \in 1..(i - 1) : msgs[j].id # id
    ELSE 0

\* the user's messages alone
ConversationHistory_UsersOnly(msgs) ==
    LET kept == SelectSeq(msgs, LAMBDA m : m.role = "user")
    IN  [ i \in 1..Len(kept) |-> [ role |-> kept[i].role, content |-> kept[i].content ] ]

\* messages.map(m => ({ role: m.role, content: m.content }))
ConversationHistory(msgs) ==
    [ i \in 1..Len(msgs) |-> [ role |-> msgs[i].role, content |-> msgs[i].content ] ]

HasId(msgs, id) == \E i \in 1..Len(msgs) : msgs[i].id = id

\* the reply references a node holds
Replies(msgs) == Cardinality({ i \in 1..Len(msgs) : msgs[i].replyTo # NoReply })

\* --------------------------------------------------------------- settings

\* the slider: min 0, max 1, step 0.01, here in hundredths
Temperatures == { 0, 1, 70, 100 }
\* useState(0.7)
InitialTemperature == 70
\* data.temperature || 0.7
DefaultTemperature == 70

AIModels == { "ChatGPT", "Claude", "Gemini" }

MODEL_MAP(model) ==
    CASE model = "ChatGPT" -> "openai/gpt-5.2-chat"
      [] model = "Claude" -> "anthropic/claude-haiku-4.5"
      [] model = "Gemini" -> "google/gemini-3-flash-preview"

\* --------------------------------------------------------------- exchange

\* The continuation of one handleSend / handleSaveEdit call, with the server
\* side of its request.
\*   phase  "requested": awaiting sendChatMessage; "reading": in the read loop
\*   srv    "pending" | "streaming" | "closed" | "aborted" | "errored"
\*   wire   what the server enqueued and the reader has not read yet
\*   sent   how much of Reply the gateway has delivered
\*   model, temperature   the settings the node sent along with req
\*   gateway  << >>, or the request the server made to the model gateway
NewExchange(kind, pid, req, h) ==
    [ kind |-> kind, pid |-> pid, req |-> req, phase |-> "requested",
      acc |-> EmptyText, srv |-> "pending", wire |-> << >>, sent |-> 0,
      model |-> MODEL_MAP(selectedModel), temperature |-> temperature,
      gateway |-> << >>,
      h0 |-> h, rcvd |-> << >> ]

\* What the ReadableStream hands to the reader: an enqueued fragment, the
\* close of the stream, or its error.
\* The first character only, in place of the whole delta.
Fragment_FirstOnly(text) == [ type |-> "chunk", data |-> << Head(text) >> ]

Fragment(text) == [ type |-> "chunk", data |-> text ]
EndOfStream == [ type |-> "end", data |-> << >> ]
StreamError == [ type |-> "error", data |-> << >> ]

\* The clock after a request was awaited: at least one millisecond later
\* than the handler that made it (whose placeholder id is its time + 1).
AfterRoundTrip(x) == IF now >= x.pid[3] THEN now ELSE now + 1

\* ------------------------------------------------------------------- Init

Init ==
    /\ now = 0
    /\ mounted = TRUE
    /\ messages = << >>
    /\ deletedMessages = << >>
    /\ input = EmptyText
    /\ isLoading = FALSE
    /\ replyingTo = << >>
    /\ editingMessageId = NoId
    /\ editingContent = EmptyText
    /\ exchanges = {}
    /\ nodeIdCounter = 2
    /\ nodes = << >>
    /\ edges = << >>
    /\ connectedContextsRef = << >>
    /\ selectedModel = "Claude"
    /\ temperature = InitialTemperature
    /\ history = << >>
    /\ historyIndex = 0
    /\ isUndoRedoAction = FALSE
    /\ lastOp = "other"

\* ---------------------------------------------------------------- actions

\* Time passes.
Tick ==
    /\ now < MaxTime
    /\ now' = now + 1
    /\ lastOp' = "other"
    /\ UNCHANGED canvas
    /\ UNCHANGED settings
    /\ UNCHANGED tracking
    /\ UNCHANGED << mounted, messages, deletedMessages, input, isLoading,
                    replyingTo, editingMessageId, editingContent, exchanges >>

\* onChange of the message textarea
setInput ==
    /\ mounted
    /\ \E text \in Inputs : input' = text
    /\ lastOp' = "other"
    /\ UNCHANGED canvas
    /\ UNCHANGED settings
    /\ UNCHANGED tracking
    /\ UNCHANGED << now, mounted, messages, deletedMessages, isLoading,
                    replyingTo, editingMessageId, editingContent, exchanges >>

\* handleSend with the lock test left out of its guard
SendRejected_NoLock == Trim(input) = EmptyText

\* handleSend with the input tested untrimmed
SendRejected_NoTrim == input = EmptyText \/ isLoading

\* if (!input.trim() || isLoading) return
SendRejected == Trim(input) = EmptyText \/ isLoading

\* setDeletedMessages([]) left out
ClearedRedo_Kept == deletedMessages

\* setDeletedMessages([])
ClearedRedo == << >>

handleSend ==
    /\ mounted
    /\ lastOp' = "send"
    /\ UNCHANGED canvas
    /\ UNCHANGED settings
    /\ UNCHANGED tracking
    /\ IF SendRejected
       THEN UNCHANGED << now, mounted, messages, deletedMessages, input,
                         isLoading, replyingTo, editingMessageId,
                         editingContent, exchanges >>
       ELSE LET userMessage == UserMessage(now, input, replyingTo)
                assistantMessageId == TimeId(now + 1)
                after == messages \o << userMessage, Placeholder(assistantMessageId) >>
                conversationHistory ==
                    ConversationHistory(messages) \o
                    << [ role |-> "user", content |-> userMessage.content ] >>
            IN  /\ Len(messages) + 2 <= MaxMsgs
                /\ now < MaxTime
                /\ messages' = after
                /\ deletedMessages' = ClearedRedo
                /\ replyingTo' = << >>
                /\ input' = EmptyText
                /\ isLoading' = TRUE
                /\ exchanges' = exchanges \cup
                       { NewExchange("send", assistantMessageId,
                                     conversationHistory, after) }
                /\ UNCHANGED << now, mounted, editingMessageId,
                                editingContent >>

\* messages[messages.length - 1]
Last(s) == s[Len(s)]

\* slice(1) in place of slice(0, -1)
DropLast_First(msgs) == Tail(msgs)

\* prev.slice(0, -1)
DropLast(msgs) == SubSeq(msgs, 1, Len(msgs) - 1)

\* handleUndo putting the removed message in front of the undone ones
Undone_Front(st) ==
    IF Len(st[1]) = 0
    THEN st
    ELSE << DropLast(st[1]), << Last(st[1]) >> \o st[2] >>

\* The effect of handleUndo on the pair << messages, deletedMessages >>.
Undone(st) ==
    IF Len(st[1]) = 0
    THEN st
    ELSE LET lastMessage == Last(st[1])
         IN  << DropLast(st[1]), Append(st[2], lastMessage) >>

\* handleRedo taking the oldest undone message instead of the latest
Redone_Oldest(st) ==
    IF Len(st[2]) = 0
    THEN st
    ELSE << Append(st[1], Head(st[2])), Tail(st[2]) >>

\* The effect of handleRedo on the pair << messages, deletedMessages >>.
Redone(st) ==
    IF Len(st[2]) = 0
    THEN st
    ELSE LET lastDeleted == Last(st[2])
         IN  << Append(st[1], lastDeleted), DropLast(st[2]) >>

handleUndo ==
    /\ mounted
    /\ lastOp' = "undo"
    /\ UNCHANGED canvas
    /\ UNCHANGED settings
    /\ UNCHANGED tracking
    /\ LET after == Undone(<< messages, deletedMessages >>)
       IN  /\ messages' = after[1]
           /\ deletedMessages' = after[2]
    /\ UNCHANGED << now, mounted, input, isLoading, replyingTo,
                    editingMessageId, editingContent, exchanges >>

handleRedo ==
    /\ mounted
    /\ lastOp' = "redo"
    /\ UNCHANGED canvas
    /\ UNCHANGED settings
    /\ UNCHANGED tracking
    /\ LET after == Redone(<< messages, deletedMessages >>)
       IN  /\ messages' = after[1]
           /\ deletedMessages' = after[2]
    /\ UNCHANGED << now, mounted, input, isLoading, replyingTo,
                    editingMessageId, editingContent, exchanges >>

handleEditMessage ==
    /\ mounted
    /\ \E i \in 1..Len(messages) :
          \* the Edit button is rendered for user messages only
          /\ messages[i].role = "user"
          /\ editingMessageId' = messages[i].id
          /\ editingContent' = messages[i].content
    /\ lastOp' = "other"
    /\ UNCHANGED canvas
    /\ UNCHANGED settings
    /\ UNCHANGED tracking
    /\ UNCHANGED << now, mounted, messages, deletedMessages, input, isLoading,
                    replyingTo, exchanges >>

\* onChange of the edit textarea, rendered inside the message being edited
setEditingContent ==
    /\ mounted
    /\ HasId(messages, editingMessageId)
    /\ \E text \in EditInputs : editingContent' = text
    /\ lastOp' = "other"
    /\ UNCHANGED canvas
    /\ UNCHANGED settings
    /\ UNCHANGED tracking
    /\ UNCHANGED << now, mounted, messages, deletedMessages, input, isLoading,
                    replyingTo, editingMessageId, exchanges >>

handleCancelEdit ==
    /\ mounted
    /\ HasId(messages, editingMessageId)
    /\ editingMessageId' = NoId
    /\ editingContent' = EmptyText
    /\ lastOp' = "other"
    /\ UNCHANGED canvas
    /\ UNCHANGED settings
    /\ UNCHANGED tracking
    /\ UNCHANGED << now, mounted, messages, deletedMessages, input, isLoading,
                    replyingTo, exchanges >>

\* handleSaveEdit with the edited text tested untrimmed
EditRejected_NoTrim ==
    \/ editingContent = EmptyText
    \/ editingMessageId = NoId
    \/ isLoading
    \/ FindIndex(messages, editingMessageId) = 0

\* if (!editingContent.trim() || !editingMessageId || isLoading) return
\* if (messageIndex === -1) return
EditRejected ==
    \/ Trim(editingContent) = EmptyText
    \/ editingMessageId = NoId
    \/ isLoading
    \/ FindIndex(messages, editingMessageId) = 0

handleSaveEdit ==
    /\ mounted
    /\ lastOp' = "saveEdit"
    /\ UNCHANGED canvas
    /\ UNCHANGED settings
    /\ UNCHANGED tracking
    /\ LET messageIndex == FindIndex(messages, editingMessageId)
       IN  IF EditRejected
           THEN UNCHANGED << now, mounted, messages, deletedMessages, input,
                             isLoading, replyingTo, editingMessageId,
                             editingContent, exchanges >>
           ELSE LET updatedMessages ==
                        [ SubSeq(messages, 1, messageIndex)
                            EXCEPT ![messageIndex].content = Trim(editingContent) ]
                    assistantMessageId == TimeId(now + 1)
                    after == Append(updatedMessages, Placeholder(assistantMessageId))
                IN  /\ now < MaxTime
                    /\ messages' = after
                    /\ editingMessageId' = NoId
                    /\ editingContent' = EmptyText
                    /\ deletedMessages' = ClearedRedo
                    /\ isLoading' = TRUE
                    /\ exchanges' = exchanges \cup
                           { NewExchange("edit", assistantMessageId,
                                         ConversationHistory(updatedMessages),
                                         after) }
                    /\ UNCHANGED << now, mounted, input, replyingTo >>

handleReplyTo ==
    /\ mounted
    /\ Replies(messages) + Replies(deletedMessages) < MaxReplies
    /\ \E i \in 1..Len(messages) : replyingTo' = << messages[i] >>
    /\ lastOp' = "other"
    /\ UNCHANGED canvas
    /\ UNCHANGED settings
    /\ UNCHANGED tracking
    /\ UNCHANGED << now, mounted, messages, deletedMessages, input, isLoading,
                    editingMessageId, editingContent, exchanges >>

handleCancelReply ==
    /\ mounted
    /\ replyingTo # << >>
    /\ replyingTo' = << >>
    /\ lastOp' = "other"
    /\ UNCHANGED canvas
    /\ UNCHANGED settings
    /\ UNCHANGED tracking
    /\ UNCHANGED << now, mounted, messages, deletedMessages, input, isLoading,
                    editingMessageId, editingContent, exchanges >>

\* The node is filtered out of the canvas: the component unmounts.  Nothing
\* tells the running continuation; its later state updates are dropped.
handleClose ==
    /\ mounted
    /\ mounted' = FALSE
    /\ lastOp' = "other"
    /\ UNCHANGED canvas
    /\ UNCHANGED settings
    /\ UNCHANGED tracking
    /\ UNCHANGED << now, messages, deletedMessages, input, isLoading,
                    replyingTo, editingMessageId, editingContent, exchanges >>

\* The settings panel: a model button, the temperature slider.
setSelectedModel ==
    /\ mounted
    /\ \E model \in AIModels : selectedModel' = model
    /\ lastOp' = "other"
    /\ UNCHANGED canvas
    /\ UNCHANGED tracking
    /\ UNCHANGED << now, mounted, messages, deletedMessages, input, isLoading,
                    replyingTo, editingMessageId, editingContent, exchanges,
                    temperature >>

setTemperature ==
    /\ mounted
    /\ \E t \in Temperatures : temperature' = t
    /\ lastOp' = "other"
    /\ UNCHANGED canvas
    /\ UNCHANGED tracking
    /\ UNCHANGED << now, mounted, messages, deletedMessages, input, isLoading,
                    replyingTo, editingMessageId, editingContent, exchanges,
                    selectedModel >>

\* ------------------------------------------------------------ the canvas

\* `node-${nodeIdCounter.current++}`
NodeId(n) == CASE n = 2 -> "node-2" [] n = 3 -> "node-3" [] OTHER -> "node-4"

\* edge.source.startsWith('node-'): every id handleAddNode makes
StartsWithNode(id) == \E n \in 2..4 : id = NodeId(n)

\* nodes.find(node => node.id === id): its index, 0 when there is none
FindNode(id) ==
    IF \E i \in 1..Len(nodes) : nodes[i].id = id
    THEN CHOOSE i \in 1..Len(nodes) :
            /\ nodes[i].id = id
            /\ \A j \in 1..(i - 1) : nodes[j].id # id
    ELSE 0

\* The "+" menu, Context: a context node with no text yet.
handleAddNode ==
    /\ nodeIdCounter <= MaxNodeId
    /\ nodeIdCounter' = nodeIdCounter + 1
    /\ nodes' = Append(nodes, [ id |-> NodeId(nodeIdCounter),
                                type |-> "contextNode",
                                label |-> "Context",
                                text |-> EmptyText,
                                messages |-> << >> ])
    /\ lastOp' = "other"
    /\ UNCHANGED settings
    /\ UNCHANGED tracking
    /\ UNCHANGED << now, mounted, messages, deletedMessages, input, isLoading,
                    replyingTo, editingMessageId, editingContent, exchanges,
                    edges, connectedContextsRef >>

\* The textarea of a context node changes (onChange): the node writes the
\* text into its node data.
handleTextChange ==
    /\ \E i \in 1..Len(nodes), newText \in Texts :
          /\ nodes[i].text # newText
          /\ nodes' = [ nodes EXCEPT ![i].text = newText ]
    /\ lastOp' = "type"
    /\ UNCHANGED settings
    /\ UNCHANGED tracking
    /\ UNCHANGED << now, mounted, messages, deletedMessages, input, isLoading,
                    replyingTo, editingMessageId, editingContent, exchanges,
                    nodeIdCounter, edges, connectedContextsRef >>

\* An edge is drawn from a node to this node: addEdge(connection, eds).
onConnect ==
    /\ mounted
    /\ \E i \in 1..Len(nodes) :
          /\ \A j \in 1..Len(edges) : edges[j] # nodes[i].id
          /\ edges' = Append(edges, nodes[i].id)
    /\ lastOp' = "other"
    /\ UNCHANGED settings
    /\ UNCHANGED tracking
    /\ UNCHANGED << now, mounted, messages, deletedMessages, input, isLoading,
                    replyingTo, editingMessageId, editingContent, exchanges,
                    nodeIdCounter, nodes, connectedContextsRef >>

\* An edge into this node is deleted on the canvas.
onEdgesChange ==
    /\ \E j \in 1..Len(edges) :
          edges' = SubSeq(edges, 1, j - 1) \o SubSeq(edges, j + 1, Len(edges))
    /\ lastOp' = "other"
    /\ UNCHANGED settings
    /\ UNCHANGED tracking
    /\ UNCHANGED << now, mounted, messages, deletedMessages, input, isLoading,
                    replyingTo, editingMessageId, editingContent, exchanges,
                    nodeIdCounter, nodes, connectedContextsRef >>

\* ------------------------------------------------- the context monitor

\* Map.has / Map.get(...) || '' on a map kept as << id, text >> pairs
HasKey(map, id) == \E i \in 1..Len(map) : map[i][1] = id
Get(map, id) ==
    IF HasKey(map, id)
    THEN map[CHOOSE i \in 1..Len(map) : map[i][1] = id][2]
    ELSE EmptyText

\* Array.prototype.join: the first element, then the separator and the next
\* element for every further one; the empty text for no element
RECURSIVE JoinFrom(_, _, _, _)
JoinFrom(acc, parts, sep, k) ==
    IF k > Len(parts) THEN acc
    ELSE JoinFrom(acc \o sep \o parts[k], parts, sep, k + 1)

Join(parts, sep) ==
    IF parts = << >> THEN EmptyText ELSE JoinFrom(parts[1], parts, sep, 2)

\* the blank line between two paragraphs ('\n\n')
BlankLine == << "//" >>

\* the mark every context-event message starts with
ContextMark == "(clip)"

\* `**${role}:** ${msg.content}`
Paragraph(msg) ==
    << IF msg.role = "user" THEN "**User:** " ELSE "**Assistant:** " >>
       \o msg.content

\* the conversation without the context-event messages
FormattedConversation_NoEvents(sourceMessages) ==
    LET IsEvent(m) == m.content # << >> /\ Head(m.content) = ContextMark
        kept == SelectSeq(sourceMessages, LAMBDA m : ~IsEvent(m))
    IN  Join([ i \in 1..Len(kept) |-> Paragraph(kept[i]) ], BlankLine)

\* sourceMessages.map(msg => ...).join('\n\n')
FormattedConversation(sourceMessages) ==
    Join([ i \in 1..Len(sourceMessages) |-> Paragraph(sourceMessages[i]) ],
         BlankLine)

\* What a source exports to the monitor: the text of a context node
\* (data.text || ''), the formatted messages of a chat node
\* (data.messages || []).
ContextText(sourceNode) ==
    IF sourceNode.type = "contextNode"
    THEN sourceNode.text
    ELSE FormattedConversation(sourceNode.messages)

\* newContexts: one entry per input edge whose source id starts with
\* 'node-' and is found among the nodes
RECURSIVE NewContextsOf(_)
NewContextsOf(inputEdges) ==
    IF inputEdges = << >>
    THEN << >>
    ELSE LET source == Head(inputEdges)
             rest == NewContextsOf(Tail(inputEdges))
         IN  IF StartsWithNode(source) /\ FindNode(source) # 0
             THEN << << source, ContextText(nodes[FindNode(source)]) >> >> \o rest
             ELSE rest

NewContexts == NewContextsOf(edges)

\* sourceNode?.type === 'chatNode' ? 'Chat' : 'Context'
NodeType(id) ==
    IF FindNode(id) # 0 /\ nodes[FindNode(id)].type = "chatNode"
    THEN "Chat"
    ELSE "Context"

\* sourceNode?.data?.label || nodeType
ContextLabel(id) ==
    IF FindNode(id) # 0 THEN nodes[FindNode(id)].label ELSE NodeType(id)

ContextMessage(id, contextText) ==
    [ id      |-> << "context", id, now >>,
      role    |-> "assistant",
      content |-> << ContextMark, NodeType(id), " Connected: ", ContextLabel(id),
                     "//" >> \o contextText,
      replyTo |-> NoReply ]

RemovalMessage(id, oldContextText) ==
    [ id      |-> << "context-removed", id, now >>,
      role    |-> "assistant",
      content |-> << ContextMark, NodeType(id), " Disconnected: ", ContextLabel(id),
                     "//", "removed, no longer to be considered:", "---" >>
                  \o oldContextText
                  \o << "---", "disregard this information" >>,
      replyTo |-> NoReply ]

UpdateMessage(id, oldText, newText) ==
    [ id      |-> << "context-updated", id, now >>,
      role    |-> "assistant",
      content |-> << ContextMark, NodeType(id), " Updated: ", ContextLabel(id),
                     "//", "previous version (disregard this):", "---" >>
                  \o oldText
                  \o << "---", "new version (use this):", "---" >>
                  \o newText
                  \o << "---", "disregard the previous version" >>,
      replyTo |-> NoReply ]

\* newContextIds.forEach: if (!oldContextIds.has(contextId))
RECURSIVE ConnectMessages(_, _)
ConnectMessages(new, old) ==
    IF new = << >>
    THEN << >>
    ELSE LET contextId == Head(new)[1]
             rest == ConnectMessages(Tail(new), old)
         IN  IF ~HasKey(old, contextId)
             THEN << ContextMessage(contextId, Head(new)[2]) >> \o rest
             ELSE rest

\* the disconnect message quoting the text the source has now
RemovedText_Current(old, id) ==
    IF FindNode(id) # 0 THEN nodes[FindNode(id)].text ELSE EmptyText

\* connectedContextsRef.current.get(contextId) || ''
RemovedText(old, id) == Get(old, id)

\* oldContextIds.forEach: if (!newContextIds.has(contextId))
RECURSIVE RemovalMessages(_, _, _)
RemovalMessages(rest, old, new) ==
    IF rest = << >>
    THEN << >>
    ELSE LET contextId == Head(rest)[1]
             more == RemovalMessages(Tail(rest), old, new)
         IN  IF ~HasKey(new, contextId)
             THEN << RemovalMessage(contextId, RemovedText(old, contextId)) >> \o more
             ELSE more

\* an update message whenever the source has a text
TextChanged_NonEmpty(oldText, newText) == newText # EmptyText

\* an update message whenever the source is still connected
TextChanged_Always(oldText, newText) == TRUE

\* if (oldText !== newText && newText)
TextChanged(oldText, newText) == oldText # newText /\ newText # EmptyText

\* newContextIds.forEach: if (oldContextIds.has(contextId))
RECURSIVE UpdateMessages(_, _)
UpdateMessages(new, old) ==
    IF new = << >>
    THEN << >>
    ELSE LET contextId == Head(new)[1]
             oldText == Get(old, contextId)
             newText == Head(new)[2]
             rest == UpdateMessages(Tail(new), old)
         IN  IF HasKey(old, contextId) /\ TextChanged(oldText, newText)
             THEN << UpdateMessage(contextId, oldText, newText) >> \o rest
             ELSE rest

\* the update messages ahead of the others
Injected_UpdatesFirst(new, old) ==
    UpdateMessages(new, old)
       \o ConnectMessages(new, old)
       \o RemovalMessages(old, old, new)

\* the connect message without the text of the source
Injected_NoText(new, old) ==
    ConnectMessages([ i \in 1..Len(new) |-> << new[i][1], EmptyText >> ], old)
       \o RemovalMessages(old, old, new)
       \o UpdateMessages(new, old)

\* what one run of the effect appends
Injected(new, old) ==
    ConnectMessages(new, old)
       \o RemovalMessages(old, old, new)
       \o UpdateMessages(new, old)

\* the monitor recording a text only when there is one
observe_SkipsEmpty ==
    /\ mounted
    /\ LET injected == Injected(NewContexts, connectedContextsRef)
       IN  /\ Len(messages) + Len(deletedMessages) + Len(injected) <= MaxMsgs
           /\ messages' = messages \o injected
           /\ lastOp' = IF injected = << >> THEN "observe" ELSE "inject"
    /\ connectedContextsRef' =
          [ i \in 1..Len(NewContexts) |->
              IF NewContexts[i][2] = EmptyText
              THEN << NewContexts[i][1], Get(connectedContextsRef, NewContexts[i][1]) >>
              ELSE NewContexts[i] ]
    /\ UNCHANGED settings
    /\ UNCHANGED tracking
    /\ UNCHANGED << now, mounted, deletedMessages, input, isLoading,
                    replyingTo, editingMessageId, editingContent, exchanges,
                    nodeIdCounter, nodes, edges >>

\* the monitor also deleting the edges whose source is gone
observe_PrunesEdges ==
    /\ mounted
    /\ LET injected == Injected(NewContexts, connectedContextsRef)
       IN  /\ Len(messages) + Len(deletedMessages) + Len(injected) <= MaxMsgs
           /\ messages' = messages \o injected
           /\ lastOp' = IF injected = << >> THEN "observe" ELSE "inject"
    /\ connectedContextsRef' = NewContexts
    /\ UNCHANGED settings
    /\ UNCHANGED tracking
    /\ edges' = SelectSeq(edges, LAMBDA source : FindNode(source) # 0)
    /\ UNCHANGED << now, mounted, deletedMessages, input, isLoading,
                    replyingTo, editingMessageId, editingContent, exchanges,
                    nodeIdCounter, nodes >>

\* useEffect(..., [edges, nodes, id]): the context monitor
observe ==
    /\ mounted
    /\ LET injected == Injected(NewContexts, connectedContextsRef)
       IN  /\ Len(messages) + Len(deletedMessages) + Len(injected) <= MaxMsgs
           /\ messages' = messages \o injected
           /\ lastOp' = IF injected = << >> THEN "observe" ELSE "inject"
    /\ connectedContextsRef' = NewContexts
    /\ UNCHANGED settings
    /\ UNCHANGED tracking
    /\ UNCHANGED << now, mounted, deletedMessages, input, isLoading,
                    replyingTo, editingMessageId, editingContent, exchanges,
                    nodeIdCounter, nodes, edges >>

\* ------------------------------------------------- server (sendChatMessage)

Replace(x, y) == (exchanges \ {x}) \cup {y}

\* the catch block without the finally block
Failed_NoFinally(x) ==
    /\ exchanges' = exchanges \ {x}
    /\ IF mounted
       THEN messages' = RemoveId(messages, x.pid)
       ELSE UNCHANGED messages
    /\ UNCHANGED isLoading

\* catch + finally of handleSend / handleSaveEdit
Failed(x) ==
    /\ exchanges' = exchanges \ {x}
    /\ IF mounted
       THEN /\ messages' = RemoveId(messages, x.pid)
            /\ isLoading' = FALSE
       ELSE UNCHANGED << messages, isLoading >>

\* break out of the read loop + finally
Completed(x) ==
    /\ exchanges' = exchanges \ {x}
    /\ IF mounted
       THEN isLoading' = FALSE
       ELSE UNCHANGED isLoading
    /\ UNCHANGED messages

\* data.messages || [{ role: data.role, content: data.message }]: the node
\* always sends the list, and a list, the empty one too, is truthy
MessagesToSend(x) == x.req

\* data.temperature || 0.7
ForwardedTemperature(t) == IF t = 0 THEN DefaultTemperature ELSE t

\* openRouter.chat.send({ model, messages, stream: true, temperature })
GatewayRequest(x) ==
    [ model |-> x.model, messages |-> MessagesToSend(x), stream |-> TRUE,
      temperature |-> ForwardedTemperature(x.temperature) ]

\* the handler throws before a stream exists (no API key, the gateway
\* refuses the request): await sendChatMessage rejects
requestThrows ==
    /\ \E x \in exchanges :
          /\ x.phase = "requested"
          /\ now' = AfterRoundTrip(x)
          /\ Failed(x)
    /\ lastOp' = "other"
    /\ UNCHANGED canvas
    /\ UNCHANGED settings
    /\ UNCHANGED tracking
    /\ UNCHANGED << mounted, deletedMessages, input, replyingTo,
                    editingMessageId, editingContent >>

\* the handler returns the Response; response.body?.getReader() gives a reader
requestResolves ==
    /\ \E x \in exchanges :
          /\ x.phase = "requested"
          /\ now' = AfterRoundTrip(x)
          /\ exchanges' = Replace(x, [ x EXCEPT !.phase = "reading",
                                                !.srv = "streaming",
                                                !.gateway = << GatewayRequest(x) >> ])
    /\ lastOp' = "other"
    /\ UNCHANGED canvas
    /\ UNCHANGED settings
    /\ UNCHANGED tracking
    /\ UNCHANGED << mounted, messages, deletedMessages, input, isLoading,
                    replyingTo, editingMessageId, editingContent >>

\* the handler returns a Response without a body: 'No reader available'
noReader ==
    /\ \E x \in exchanges :
          /\ x.phase = "requested"
          /\ now' = AfterRoundTrip(x)
          /\ Failed(x)
    /\ lastOp' = "other"
    /\ UNCHANGED canvas
    /\ UNCHANGED settings
    /\ UNCHANGED tracking
    /\ UNCHANGED << mounted, deletedMessages, input, replyingTo,
                    editingMessageId, editingContent >>

\* for await (const chunk of stream): one delta of the gateway; an empty
\* delta is not enqueued
streamDelta ==
    /\ \E x \in exchanges :
          /\ x.srv = "streaming"
          /\ \E n \in 0..(Len(Reply) - x.sent) :
                LET content == SubSeq(Reply, x.sent + 1, x.sent + n)
                IN  exchanges' = Replace(x,
                        [ x EXCEPT !.sent = @ + n,
                                   !.wire = IF content # EmptyText
                                            THEN Append(@, Fragment(content))
                                            ELSE @ ])
    /\ lastOp' = "other"
    /\ UNCHANGED canvas
    /\ UNCHANGED settings
    /\ UNCHANGED tracking
    /\ UNCHANGED << now, mounted, messages, deletedMessages, input, isLoading,
                    replyingTo, editingMessageId, editingContent >>

\* the gateway's stream ends: controller.close()
streamEnd ==
    /\ \E x \in exchanges :
          /\ x.srv = "streaming"
          /\ exchanges' = Replace(x, [ x EXCEPT !.srv = "closed",
                                                !.wire = Append(@, EndOfStream) ])
    /\ lastOp' = "other"
    /\ UNCHANGED canvas
    /\ UNCHANGED settings
    /\ UNCHANGED tracking
    /\ UNCHANGED << now, mounted, messages, deletedMessages, input, isLoading,
                    replyingTo, editingMessageId, editingContent >>

\* the gateway's stream throws an AbortError: controller.close()
streamAbort ==
    /\ \E x \in exchanges :
          /\ x.srv = "streaming"
          /\ exchanges' = Replace(x, [ x EXCEPT !.srv = "aborted",
                                                !.wire = Append(@, EndOfStream) ])
    /\ lastOp' = "other"
    /\ UNCHANGED canvas
    /\ UNCHANGED settings
    /\ UNCHANGED tracking
    /\ UNCHANGED << now, mounted, messages, deletedMessages, input, isLoading,
                    replyingTo, editingMessageId, editingContent >>

\* the gateway's stream throws anything else: controller.error(error)
streamError ==
    /\ \E x \in exchanges :
          /\ x.srv = "streaming"
          /\ exchanges' = Replace(x, [ x EXCEPT !.srv = "errored",
                                                !.wire = Append(@, StreamError) ])
    /\ lastOp' = "other"
    /\ UNCHANGED canvas
    /\ UNCHANGED settings
    /\ UNCHANGED tracking
    /\ UNCHANGED << now, mounted, messages, deletedMessages, input, isLoading,
                    replyingTo, editingMessageId, editingContent >>

\* ------------------------------------------------ the read loop (client)

\* reader.read() gives a fragment
readChunk ==
    /\ \E x \in exchanges :
          /\ x.phase = "reading"
          /\ x.wire # << >>
          /\ Head(x.wire).type = "chunk"
          /\ LET chunk == Head(x.wire).data
                 accumulatedContent == x.acc \o chunk
             IN  /\ exchanges' = Replace(x,
                        [ x EXCEPT !.acc = accumulatedContent,
                                   !.wire = Tail(@),
                                   !.rcvd = Append(@, chunk) ])
                 /\ IF mounted
                    THEN messages' = SetContent(messages, x.pid, accumulatedContent)
                    ELSE UNCHANGED messages
    /\ lastOp' = "other"
    /\ UNCHANGED canvas
    /\ UNCHANGED settings
    /\ UNCHANGED tracking
    /\ UNCHANGED << now, mounted, deletedMessages, input, isLoading,
                    replyingTo, editingMessageId, editingContent >>

\* reader.read() gives done
readDone ==
    /\ \E x \in exchanges :
          /\ x.phase = "reading"
          /\ x.wire # << >>
          /\ Head(x.wire).type = "end"
          /\ Completed(x)
    /\ lastOp' = "other"
    /\ UNCHANGED canvas
    /\ UNCHANGED settings
    /\ UNCHANGED tracking
    /\ UNCHANGED << now, mounted, deletedMessages, input, replyingTo,
                    editingMessageId, editingContent >>

\* reader.read() rejects
readError ==
    /\ \E x \in exchanges :
          /\ x.phase = "reading"
          /\ x.wire # << >>
          /\ Head(x.wire).type = "error"
          /\ Failed(x)
    /\ lastOp' = "other"
    /\ UNCHANGED canvas
    /\ UNCHANGED settings
    /\ UNCHANGED tracking
    /\ UNCHANGED << now, mounted, deletedMessages, input, replyingTo,
                    editingMessageId, editingContent >>

Next ==
    \/ Tick
    \/ setInput
    \/ handleSend
    \/ handleUndo
    \/ handleRedo
    \/ handleEditMessage
    \/ setEditingContent
    \/ handleCancelEdit
    \/ handleSaveEdit
    \/ handleReplyTo
    \/ handleCancelReply
    \/ handleClose
    \/ requestThrows
    \/ requestResolves
    \/ noReader
    \/ streamDelta
    \/ streamEnd
    \/ streamAbort
    \/ streamError
    \/ readChunk
    \/ readDone
    \/ readError

Spec == Init /\ [][Next]_vars

\* The exchange and the lock without the reply reference and the removal of
\* the node, which neither read nor write the lock.
NextExchange ==
    \/ Tick
    \/ setInput
    \/ handleSend
    \/ handleUndo
    \/ handleRedo
    \/ handleEditMessage
    \/ setEditingContent
    \/ handleCancelEdit
    \/ handleSaveEdit
    \/ requestThrows
    \/ requestResolves
    \/ noReader
    \/ streamDelta
    \/ streamEnd
    \/ streamAbort
    \/ streamError
    \/ readChunk
    \/ readDone
    \/ readError

\* A request is answered, the gateway's stream ends or throws, and the read
\* loop runs whenever the stream has something for it.
Answered == requestThrows \/ requestResolves \/ noReader
StreamEnds == streamEnd \/ streamAbort \/ streamError
ReadLoop == readChunk \/ readDone \/ readError

FairSpec ==
    /\ Init
    /\ [][NextExchange]_vars
    /\ WF_vars(Answered)
    /\ WF_vars(StreamEnds)
    /\ WF_vars(ReadLoop)

\* The node after two turns in consecutive milliseconds: a send in
\* millisecond -1 was answered in full, a send in millisecond 0 failed and
\* lost its placeholder.  (Time 0 is the millisecond of the second send;
\* Spec reaches this state, one millisecond later, with room for four
\* messages.)
SecondTurnInit ==
    /\ now = 1
    /\ mounted = TRUE
    /\ messages = << UserMessage(0 - 1, << "a" >>, << >>),
                     [ Placeholder(TimeId(0)) EXCEPT !.content = Reply ],
                     UserMessage(0, << "a" >>, << >>) >>
    /\ deletedMessages = << >>
    /\ input = EmptyText
    /\ isLoading = FALSE
    /\ replyingTo = << >>
    /\ editingMessageId = NoId
    /\ editingContent = EmptyText
    /\ exchanges = {}
    /\ nodeIdCounter = 2
    /\ nodes = << >>
    /\ edges = << >>
    /\ connectedContextsRef = << >>
    /\ selectedModel = "Claude"
    /\ temperature = InitialTemperature
    /\ history = << >>
    /\ historyIndex = 0
    /\ isUndoRedoAction = FALSE
    /\ lastOp = "other"

SecondTurnSpec == SecondTurnInit /\ [][NextExchange]_vars

\* The node after two sends that failed, the second one a reply to the first
\* message: a send in millisecond -2, Reply on its message, a send in
\* millisecond -1.  (Time 0 is the millisecond after the second failure.)
ReplyInit ==
    /\ now = 0
    /\ mounted = TRUE
    /\ messages = << UserMessage(0 - 2, << "a" >>, << >>),
                     UserMessage(0 - 1, << "a" >>,
                                 << UserMessage(0 - 2, << "a" >>, << >>) >>) >>
    /\ deletedMessages = << >>
    /\ input = EmptyText
    /\ isLoading = FALSE
    /\ replyingTo = << >>
    /\ editingMessageId = NoId
    /\ editingContent = EmptyText
    /\ exchanges = {}
    /\ nodeIdCounter = 2
    /\ nodes = << >>
    /\ edges = << >>
    /\ connectedContextsRef = << >>
    /\ selectedModel = "Claude"
    /\ temperature = InitialTemperature
    /\ history = << >>
    /\ historyIndex = 0
    /\ isUndoRedoAction = FALSE
    /\ lastOp = "other"

\* The user replies, sends, edits, undoes and redoes; a request fails, or
\* its stream ends before the first delta.
NextReply ==
    \/ setInput
    \/ handleReplyTo
    \/ handleSend
    \/ handleUndo
    \/ handleRedo
    \/ handleEditMessage
    \/ setEditingContent
    \/ handleSaveEdit
    \/ requestThrows
    \/ requestResolves
    \/ streamEnd
    \/ readDone

ReplySpec == ReplyInit /\ [][NextReply]_vars

\* The node with its settings panel: the user picks a model and a
\* temperature, sends and edits; the server forwards the request.
NextGateway ==
    \/ setSelectedModel
    \/ setTemperature
    \/ setInput
    \/ handleSend
    \/ handleEditMessage
    \/ setEditingContent
    \/ handleSaveEdit
    \/ requestThrows
    \/ requestResolves
    \/ streamEnd
    \/ readDone

GatewaySpec == Init /\ [][NextGateway]_vars

\* The monitor has run since the canvas last changed: it ran when the render
\* that followed the change was committed, before the next event is handled.
Settled == connectedContextsRef = NewContexts

\* The node among its sources: the canvas changes, the monitor runs, and
\* the user works on the conversation once the monitor has run.
NextWatch ==
    \/ handleAddNode
    \/ handleTextChange
    \/ onConnect
    \/ onEdgesChange
    \/ observe
    \/ Settled /\ setInput
    \/ Settled /\ handleSend
    \/ Settled /\ handleUndo
    \/ Settled /\ handleRedo
    \/ requestThrows
    \/ requestResolves
    \/ streamEnd
    \/ readDone

WatchSpec == Init /\ [][NextWatch]_vars

\* One run of the monitor, for every canvas it can find and every map it can
\* have recorded: up to two context nodes (a closed node leaves its edge
\* behind), the edges in any order, any texts.
SourceIds == { NodeId(2), NodeId(3) }

ContextNodes ==
    { << >> } \cup
    { << [ id |-> s, type |-> "contextNode", label |-> "Context", text |-> t,
           messages |-> << >> ] >> :
         s \in SourceIds, t \in Texts } \cup
    { << [ id |-> NodeId(2), type |-> "contextNode", label |-> "Context", text |-> t,
           messages |-> << >> ],
         [ id |-> NodeId(3), type |-> "contextNode", label |-> "Context", text |-> u,
           messages |-> << >> ] >> :
         t \in Texts, u \in Texts }

TwoSources == { e \in SourceIds \X SourceIds : e[1] # e[2] }

EdgeLists == { << >> } \cup { << s >> : s \in SourceIds } \cup TwoSources

ContextMaps ==
    { << >> } \cup { << << s, t >> >> : s \in SourceIds, t \in Texts } \cup
    { << << e[1], t >>, << e[2], u >> >> :
         e \in TwoSources, t \in Texts, u \in Texts }

ObserveInit ==
    /\ now = 0
    /\ mounted = TRUE
    /\ messages = << >>
    /\ deletedMessages = << >>
    /\ input = EmptyText
    /\ isLoading = FALSE
    /\ replyingTo = << >>
    /\ editingMessageId = NoId
    /\ editingContent = EmptyText
    /\ exchanges = {}
    /\ nodeIdCounter = 4
    /\ nodes \in ContextNodes
    /\ edges \in EdgeLists
    /\ connectedContextsRef \in ContextMaps
    /\ selectedModel = "Claude"
    /\ temperature = InitialTemperature
    /\ history = << >>
    /\ historyIndex = 0
    /\ isUndoRedoAction = FALSE
    /\ lastOp = "other"

NextObserve == observe

ObserveSpec == ObserveInit /\ [][NextObserve]_vars

\* One run of the monitor of a chat node that was added later, among sources
\* of both types: the initial chat node (id '1'), a second chat node and two
\* context nodes, the added ones on the canvas or closed, each with an edge
\* into this node or not, and the maps an earlier run can have recorded.
InitialNodeId == "1"

\* a message the monitor of a source appended to the source's own history
SourceEvent ==
    [ id      |-> << "context", NodeId(3), 0 >>,
      role    |-> "assistant",
      content |-> << ContextMark, "Context", " Connected: ", "Context", "//", "p" >>,
      replyTo |-> NoReply ]

\* data.messages of a source chat node: nothing yet, a turn in flight
\* (the placeholder still empty), a connect event followed by a turn
SourceHistories ==
    { << >>,
      << UserMessage(0, << "a" >>, << >>), Placeholder(TimeId(1)) >>,
      << SourceEvent, UserMessage(0, << "a" >>, << >>),
         [ Placeholder(TimeId(1)) EXCEPT !.content = Reply ] >> }

ChatSource(id, h) ==
    [ id |-> id, type |-> "chatNode", label |-> "Chat", text |-> EmptyText,
      messages |-> h ]

ContextSource(id, t) ==
    [ id |-> id, type |-> "contextNode", label |-> "Context", text |-> t,
      messages |-> << >> ]

Optional(S) == { << >> } \cup { << x >> : x \in S }

UpstreamNodes ==
    { a \o b \o c \o d :
        a \in { << ChatSource(InitialNodeId, << UserMessage(0, << "a" >>, << >>) >>) >> },
        b \in Optional({ ChatSource(NodeId(2), h) : h \in SourceHistories }),
        c \in Optional({ ContextSource(NodeId(3), t) : t \in Texts }),
        d \in Optional({ ContextSource(NodeId(4), << "q" >>) }) }

UpstreamEdges ==
    { a \o b \o c \o d :
        a \in Optional({ InitialNodeId }), b \in Optional({ NodeId(2) }),
        c \in Optional({ NodeId(3) }), d \in Optional({ NodeId(4) }) }

UpstreamMaps ==
    { b \o c \o d :
        b \in Optional({ << NodeId(2), FormattedConversation(h) >> : h \in SourceHistories }),
        c \in Optional({ << NodeId(3), t >> : t \in Texts }),
        d \in Optional({ << NodeId(4), << "p" >> >> }) }

UpstreamInit ==
    /\ now = 0
    /\ mounted = TRUE
    /\ messages = << >>
    /\ deletedMessages = << >>
    /\ input = EmptyText
    /\ isLoading = FALSE
    /\ replyingTo = << >>
    /\ editingMessageId = NoId
    /\ editingContent = EmptyText
    /\ exchanges = {}
    /\ nodeIdCounter = 5
    /\ nodes \in UpstreamNodes
    /\ edges \in UpstreamEdges
    /\ connectedContextsRef \in UpstreamMaps
    /\ selectedModel = "Claude"
    /\ temperature = InitialTemperature
    /\ history = << >>
    /\ historyIndex = 0
    /\ isUndoRedoAction = FALSE
    /\ lastOp = "other"

NextUpstream == observe

UpstreamSpec == UpstreamInit /\ [][NextUpstream]_vars

\* The idle node with a history to build a request from: either a context
\* node was connected and announced by the monitor (millisecond -1), or a
\* send (millisecond -3) was answered in full and a later send (millisecond
\* -1) failed.
RequestInit ==
    /\ now = 0
    /\ mounted = TRUE
    /\ \/ /\ messages =
                << [ id      |-> << "context", NodeId(2), 0 - 1 >>,
                     role    |-> "assistant",
                     content |-> << ContextMark, "Context", " Connected: ",
                                    "Context", "//", "p" >>,
                     replyTo |-> NoReply ] >>
             /\ nodeIdCounter = 3
             /\ nodes = << ContextSource(NodeId(2), << "p" >>) >>
             /\ edges = << NodeId(2) >>
             /\ connectedContextsRef = << << NodeId(2), << "p" >> >> >>
       \/ /\ messages =
                << UserMessage(0 - 3, << "a" >>, << >>),
                   [ Placeholder(TimeId(0 - 2)) EXCEPT !.content = Reply ],
                   UserMessage(0 - 1, << "a" >>, << >>) >>
             /\ nodeIdCounter = 2
             /\ nodes = << >>
             /\ edges = << >>
             /\ connectedContextsRef = << >>
    /\ deletedMessages = << >>
    /\ input = EmptyText
    /\ isLoading = FALSE
    /\ replyingTo = << >>
    /\ editingMessageId = NoId
    /\ editingContent = EmptyText
    /\ exchanges = {}
    /\ selectedModel = "Claude"
    /\ temperature = InitialTemperature
    /\ history = << >>
    /\ historyIndex = 0
    /\ isUndoRedoAction = FALSE
    /\ lastOp = "other"

\* The user sends, edits, undoes and redoes; a request fails, or its stream
\* ends before the first delta.
NextRequest ==
    \/ setInput
    \/ handleSend
    \/ handleUndo
    \/ handleRedo
    \/ handleEditMessage
    \/ setEditingContent
    \/ handleSaveEdit
    \/ requestThrows
    \/ requestResolves
    \/ streamEnd
    \/ readDone

RequestSpec == RequestInit /\ [][NextRequest]_vars

\* The node right after a send, its request in flight, with a context node
\* on the canvas that is not connected yet.
InFlightInit ==
    /\ now = 0
    /\ mounted = TRUE
    /\ selectedModel = "Claude"
    /\ temperature = InitialTemperature
    /\ history = << >>
    /\ historyIndex = 0
    /\ isUndoRedoAction = FALSE
    /\ messages = << UserMessage(0, << "a" >>, << >>), Placeholder(TimeId(1)) >>
    /\ deletedMessages = << >>
    /\ input = EmptyText
    /\ isLoading = TRUE
    /\ replyingTo = << >>
    /\ editingMessageId = NoId
    /\ editingContent = EmptyText
    /\ exchanges = { NewExchange("send", TimeId(1),
                                 << [ role |-> "user", content |-> << "a" >> ] >>,
                                 messages) }
    /\ nodeIdCounter = 3
    /\ nodes = << ContextSource(NodeId(2), << "p" >>) >>
    /\ edges = << >>
    /\ connectedContextsRef = << >>
    /\ lastOp = "send"

\* The canvas changes and the monitor runs while the request is answered.
NextInFlight ==
    \/ handleTextChange
    \/ onConnect
    \/ onEdgesChange
    \/ observe
    \/ requestThrows
    \/ requestResolves
    \/ noReader
    \/ streamDelta
    \/ streamEnd
    \/ streamAbort
    \/ streamError
    \/ readChunk
    \/ readDone
    \/ readError

InFlightSpec == InFlightInit /\ [][NextInFlight]_vars

\* The node among all the nodes of the canvas, itself included: a chat node
\* added with the "+" menu, and possibly a context node.  The edges are
\* fixed; one of them may lead from the node to itself.
ownId == NodeId(2)

\* useEffect(..., [messages, id, setNodes]): the node writes its messages
\* into its own node data
syncMessages ==
    /\ mounted
    /\ FindNode(ownId) # 0
    /\ nodes[FindNode(ownId)].messages # messages
    /\ nodes' = [ nodes EXCEPT ![FindNode(ownId)].messages = messages ]
    /\ lastOp' = "other"
    /\ UNCHANGED settings
    /\ UNCHANGED tracking
    /\ UNCHANGED << now, mounted, messages, deletedMessages, input, isLoading,
                    replyingTo, editingMessageId, editingContent, exchanges,
                    nodeIdCounter, edges, connectedContextsRef >>

LoopInit ==
    /\ now = 0
    /\ mounted = TRUE
    /\ messages = << >>
    /\ deletedMessages = << >>
    /\ input = EmptyText
    /\ isLoading = FALSE
    /\ replyingTo = << >>
    /\ editingMessageId = NoId
    /\ editingContent = EmptyText
    /\ exchanges = {}
    /\ nodeIdCounter = 4
    /\ nodes \in { << ChatSource(ownId, << >>) >> \o c :
                      c \in Optional({ ContextSource(NodeId(3), t) : t \in Texts }) }
    /\ edges \in { << >>, << ownId >>, << NodeId(3) >>,
                    << ownId, NodeId(3) >>, << NodeId(3), ownId >> }
    /\ connectedContextsRef \in Optional({ << NodeId(3), t >> : t \in Texts })
    /\ selectedModel = "Claude"
    /\ temperature = InitialTemperature
    /\ history = << >>
    /\ historyIndex = 0
    /\ isUndoRedoAction = FALSE
    /\ lastOp = "other"

\* Both effects run after every render whose state they depend on changed.
NextLoop ==
    \/ observe
    \/ syncMessages

LoopSpec ==
    /\ LoopInit
    /\ [][NextLoop]_vars
    /\ WF_vars(observe)
    /\ WF_vars(syncMessages)

\* ------------------------------------------- the undo history of the canvas

\* newHistory.slice(-50)
HistoryLimit == 50

\* Math.min(prev + 1, 49)
LastIndex == 49

Min(a, b) == IF a < b THEN a ELSE b

\* `node-${nodeIdCounter.current++}`, for every value of the counter
AppNodeId(n) == "node-" \o ToString(n)

\* const initialNodes, const initialEdges
initialNodes == << ChatSource(InitialNodeId, << >>) >>
initialEdges == << >>

\* newNode of handleAddNode('context')
NewNode(n) == ContextSource(AppNodeId(n), EmptyText)

\* { nodes, edges }
HistoryState(nds, eds) == [ nodes |-> nds, edges |-> eds ]

\* the limit left out
Limited_Unlimited(h) == h

\* newHistory.slice(-50)
Limited(h) ==
    IF Len(h) > HistoryLimit
    THEN SubSeq(h, Len(h) - HistoryLimit + 1, Len(h))
    ELSE h

\* setHistory((prev) => ...) of the tracking effect; index is the
\* historyIndex of the render the effect belongs to
Pushed(prev, index, nds, eds) ==
    LET newHistory == Append(SubSeq(prev, 1, Min(index + 1, Len(prev))),
                             HistoryState(nds, eds))
    IN  Limited(newHistory)

\* The tracking effect (deps [nodes, edges]) after a render in which nodes
\* or edges changed; flag is isUndoRedoAction.current and index the
\* historyIndex at that render.
TrackChanges(flag, index) ==
    IF flag
    THEN /\ isUndoRedoAction' = FALSE
         /\ history' = history
         /\ historyIndex' = index
    ELSE /\ isUndoRedoAction' = FALSE
         /\ history' = Pushed(history, index, nodes', edges')
         /\ historyIndex' = Min(index + 1, LastIndex)

\* A render in which neither nodes nor edges changed: the effect does not
\* run, and the flag stays as the handler left it.
NotTracked(flag, index) ==
    /\ isUndoRedoAction' = flag
    /\ history' = history
    /\ historyIndex' = index

\* setNodes(state.nodes); setEdges(state.edges): React re-runs the effect
\* when one of the two is another array than the one shown
Restored(state, newIndex) ==
    /\ nodes' = state.nodes
    /\ edges' = state.edges
    /\ IF state.nodes # nodes \/ state.edges # edges
       THEN TrackChanges(TRUE, newIndex)
       ELSE NotTracked(TRUE, newIndex)

\* handleAddNode of the route that keeps the history, and the tracking
\* effect that follows it.  Every new node has a new id, so two arrays of
\* nodes are equal exactly when they are the same array.
App_handleAddNode ==
    /\ now < MaxChanges
    /\ now' = now + 1
    /\ nodeIdCounter' = nodeIdCounter + 1
    /\ nodes' = Append(nodes, NewNode(nodeIdCounter))
    /\ edges' = edges
    /\ TrackChanges(isUndoRedoAction, historyIndex)
    /\ lastOp' = "change"
    /\ UNCHANGED settings
    /\ UNCHANGED << mounted, messages, deletedMessages, input, isLoading,
                    replyingTo, editingMessageId, editingContent, exchanges,
                    connectedContextsRef >>

\* handleUndo of the route (Ctrl+Z)
App_handleUndo ==
    /\ historyIndex > 0
    /\ LET newIndex == historyIndex - 1
           state == history[newIndex + 1]
       IN  Restored(state, newIndex)
    /\ lastOp' = "canvasUndo"
    /\ UNCHANGED settings
    /\ UNCHANGED << now, mounted, messages, deletedMessages, input, isLoading,
                    replyingTo, editingMessageId, editingContent, exchanges,
                    nodeIdCounter, connectedContextsRef >>

\* handleRedo of the route (Ctrl+Shift+Z, Ctrl+Y)
App_handleRedo ==
    /\ historyIndex < Len(history) - 1
    /\ LET newIndex == historyIndex + 1
           state == history[newIndex + 1]
       IN  Restored(state, newIndex)
    /\ lastOp' = "canvasRedo"
    /\ UNCHANGED settings
    /\ UNCHANGED << now, mounted, messages, deletedMessages, input, isLoading,
                    replyingTo, editingMessageId, editingContent, exchanges,
                    nodeIdCounter, connectedContextsRef >>

\* the nodes after k nodes were added to the initial canvas
NodesAfter(k) == initialNodes \o [ j \in 1..k |-> NewNode(j + 1) ]

\* every state the effect has recorded when k nodes were added one after
\* the other: the initial one (useState), the one of the first render, and
\* one for every node
EverRecorded(k) ==
    << HistoryState(initialNodes, initialEdges),
       HistoryState(initialNodes, initialEdges) >>
    \o [ j \in 1..k |-> HistoryState(NodesAfter(j), initialEdges) ]

\* how many nodes were added before the run begins
Added == { 0, 1, 47, 48 }

\* The route after its first render and k added nodes.
CanvasInit ==
    /\ now = 0
    /\ mounted = TRUE
    /\ messages = << >>
    /\ deletedMessages = << >>
    /\ input = EmptyText
    /\ isLoading = FALSE
    /\ replyingTo = << >>
    /\ editingMessageId = NoId
    /\ editingContent = EmptyText
    /\ exchanges = {}
    /\ connectedContextsRef = << >>
    /\ selectedModel = "Claude"
    /\ temperature = InitialTemperature
    /\ \E k \in Added :
          /\ nodeIdCounter = k + 2
          /\ nodes = NodesAfter(k)
          /\ edges = initialEdges
          /\ history = Limited(EverRecorded(k))
          /\ historyIndex = Min(k + 1, LastIndex)
    /\ isUndoRedoAction = FALSE
    /\ lastOp = "other"

NextCanvas ==
    \/ App_handleAddNode
    \/ App_handleUndo
    \/ App_handleRedo

CanvasSpec == CanvasInit /\ [][NextCanvas]_vars

\* ----------------------------------------------------------------- claims

\* The exchange x leaves the set of running exchanges in this step.
Ends(x) == x \in exchanges /\ \A y \in exchanges' : y.pid # x.pid
\* ... because reader.read() gave done
EndsNormally(x) ==
    /\ Ends(x)
    /\ x.phase = "reading"
    /\ x.wire # << >>
    /\ Head(x.wire).type = "end"
\* ... through the catch block
EndsFailed(x) == Ends(x) /\ ~EndsNormally(x)

\* C1: an accepted send appends the trimmed user message and an empty
\* placeholder before any chunk is received, and when its stream ends
\* normally the history is the history right after the send with the
\* placeholder holding the concatenation of all chunks received, and the
\* lock is released.
C1_SendThenStream ==
    [][ /\ (lastOp' = "send" /\ ~(Trim(input) = EmptyText \/ isLoading))
            => /\ Len(messages') = Len(messages) + 2
               /\ SubSeq(messages', 1, Len(messages)) = messages
               /\ messages'[Len(messages) + 1].role = "user"
               /\ messages'[Len(messages) + 1].content = Trim(input)
               /\ Last(messages').role = "assistant"
               /\ Last(messages').content = EmptyText
               /\ \E x \in exchanges' : x.pid = Last(messages').id /\ x.rcvd = << >>
        /\ \A x \in exchanges :
              (mounted /\ x.kind = "send" /\ EndsNormally(x))
                 => /\ messages' = SetContent(x.h0, x.pid, Flatten(x.rcvd))
                    /\ ~isLoading' ]_vars

\* C2: at most one exchange is in flight, and a send or an edit issued
\* while one is in flight changes neither the history nor the exchanges.
C2_OneExchangeInFlight ==
    /\ [](Cardinality(exchanges) <= 1)
    /\ [][ (lastOp' \in { "send", "saveEdit" } /\ exchanges # {})
              => UNCHANGED << messages, deletedMessages, exchanges >> ]_vars

\* a valid text was sent while the reader had already delivered a chunk
C2_Witness ==
    /\ lastOp = "send"
    /\ Trim(input) # EmptyText
    /\ \E x \in exchanges : x.rcvd # << >>
    /\ Len(messages) = 2

\* C3: a send whose text is empty or whitespace-only, or that is issued while
\* the lock is held, changes nothing: messages, redo set, reply reference,
\* input and lock are unchanged and no request is made.
C3_RejectedSendIsNoOp ==
    [][ (lastOp' = "send" /\ (Trim(input) = EmptyText \/ isLoading))
           => UNCHANGED << messages, deletedMessages, replyingTo, input,
                           isLoading, exchanges >> ]_vars

\* a whitespace-only text was sent with a reply reference set
C3_Witness ==
    /\ lastOp = "send"
    /\ input # EmptyText
    /\ Trim(input) = EmptyText
    /\ replyingTo # << >>
    /\ ~isLoading

\* C4: when an exchange fails, the placeholder is removed, the lock is
\* released and the history is the history right after the send / edit
\* without the placeholder.
C4_FailureRestores ==
    [][ \A x \in exchanges :
           (mounted /\ EndsFailed(x))
              => /\ messages' = DropLast(x.h0)
                 /\ ~HasId(messages', x.pid)
                 /\ ~isLoading' ]_vars

\* C5: once no exchange is in flight, neither the history nor the redo set
\* holds a partly written reply: the placeholder of the exchange that ended
\* is absent from both, or holds all the chunks delivered for the exchange.
C5_NoPartialReply ==
    [][ \A x \in exchanges :
           (mounted /\ Ends(x))
              => \A m \in { messages'[i] : i \in 1..Len(messages') } \cup
                          { deletedMessages'[i] : i \in 1..Len(deletedMessages') } :
                    m.id = x.pid => m.content = Flatten(x.rcvd) ]_vars

\* C6: while an exchange streams, the placeholder shown in the history holds
\* the concatenation of the chunks delivered so far.
C6_PlaceholderIsPrefix ==
    \A x \in exchanges :
       \A i \in 1..Len(messages) :
          (mounted /\ messages[i].id = x.pid)
             => messages[i].content = Flatten(x.rcvd)

\* C7: an exchange whose model stream was aborted ends with its placeholder
\* removed from the history and the lock released.
C7_AbortRemovesPlaceholder ==
    [][ \A x \in exchanges :
           (mounted /\ Ends(x) /\ x.srv = "aborted")
              => /\ ~HasId(messages', x.pid)
                 /\ ~isLoading' ]_vars

\* C8: the lock taken by an accepted send or edit is released when the
\* request is answered and the stream ends or errors; whenever no exchange
\* is running the lock is free, so the next send or edit is accepted.
C8_LockReleased ==
    /\ (mounted /\ isLoading) ~> ~isLoading
    /\ [](exchanges = {} => ~isLoading)

\* a second exchange was accepted after the first one ended
C8_Witness ==
    /\ isLoading
    /\ exchanges # {}
    /\ Len(messages) = 3
    /\ messages[1].role = "user"
    /\ messages[2].role = "user"

\* C9: an undo issued while an exchange is in flight changes neither the
\* history nor the redo set.
C9_UndoBlockedInFlight ==
    [][ (lastOp' = "undo" /\ exchanges # {})
           => UNCHANGED << messages, deletedMessages >> ]_vars

\* C10: undo on an empty history changes nothing; otherwise it removes
\* exactly the last message and puts that same message on top of the redo
\* set, all earlier messages unchanged.
C10_Undo ==
    [][ lastOp' = "undo"
           => IF messages = << >>
              THEN UNCHANGED << messages, deletedMessages >>
              ELSE /\ Len(messages') = Len(messages) - 1
                   /\ \A i \in 1..Len(messages') : messages'[i] = messages[i]
                   /\ deletedMessages' = deletedMessages \o << Last(messages) >> ]_vars

\* a message carrying a reply reference was undone, an earlier one stays
C10_Witness ==
    /\ lastOp = "undo"
    /\ messages # << >>
    /\ Len(deletedMessages) = 2
    /\ deletedMessages[2].replyTo # NoReply

\* k undos, k redos
RECURSIVE UndoTimes(_, _)
UndoTimes(st, k) == IF k = 0 THEN st ELSE UndoTimes(Undone(st), k - 1)
RECURSIVE RedoTimes(_, _)
RedoTimes(st, k) == IF k = 0 THEN st ELSE RedoTimes(Redone(st), k - 1)

\* C11: redo on an empty redo set changes nothing; otherwise it moves the
\* most recently undone message from the redo set to the end of the history;
\* and in every reachable state, k undos followed at once by k redos give
\* back the same history and the same redo set, for every k.
C11_Redo ==
    /\ [][ lastOp' = "redo"
             => IF deletedMessages = << >>
                THEN UNCHANGED << messages, deletedMessages >>
                ELSE /\ messages' = messages \o << deletedMessages[Len(deletedMessages)] >>
                     /\ deletedMessages' = SubSeq(deletedMessages, 1, Len(deletedMessages) - 1) ]_vars
    /\ [](\A k \in 0..Len(messages) :
             LET st == << messages, deletedMessages >>
             IN  RedoTimes(UndoTimes(st, k), k) = st)

\* a redo was done with two messages undone, on a history that had one left
C11_Witness ==
    /\ lastOp = "redo"
    /\ Len(messages) = 2
    /\ Len(deletedMessages) = 1

\* C12: an accepted send and an accepted edit leave the redo set empty, so
\* that a redo that follows is a no-op.
C12_SendClearsRedo ==
    [][ /\ ((lastOp' = "send" /\ ~SendRejected) \/ (lastOp' = "saveEdit" /\ ~EditRejected))
           => /\ deletedMessages' = << >>
              /\ Redone(<< messages', deletedMessages' >>) = << messages', deletedMessages' >>
        /\ (lastOp' = "redo" /\ deletedMessages = << >>)
           => UNCHANGED << messages, deletedMessages >> ]_vars

\* a redo was tried, to no effect, while the exchange of a send is running
C12_Witness ==
    /\ lastOp = "redo"
    /\ isLoading
    /\ exchanges # {}
    /\ deletedMessages = << >>
    /\ Len(messages) = 3

\* C14: an accepted edit of the message at position i keeps the messages
\* before it, replaces its content by the trimmed text (id, role and replyTo
\* unchanged), drops every later message and appends an empty placeholder;
\* when the stream of the edit ends normally the last two messages of the
\* history are the edited message and the streamed reply.
C14_Edit ==
    [][ /\ (lastOp' = "saveEdit" /\ ~EditRejected)
           => \E i \in 1..Len(messages) :
                 /\ messages[i].id = editingMessageId
                 /\ Len(messages') = i + 1
                 /\ \A j \in 1..(i - 1) : messages'[j] = messages[j]
                 /\ messages'[i] = [ messages[i] EXCEPT !.content = Trim(editingContent) ]
                 /\ messages'[i + 1].role = "assistant"
                 /\ messages'[i + 1].content = EmptyText
        /\ \A x \in exchanges :
              (mounted /\ x.kind = "edit" /\ EndsNormally(x))
                 => /\ Len(messages') >= 2
                    /\ messages'[Len(messages') - 1] = x.h0[Len(x.h0) - 1]
                    /\ messages'[Len(messages')].id = x.pid
                    /\ messages'[Len(messages')].content = Flatten(x.rcvd) ]_vars

\* C15: an edit whose message id is not in the history, whose text is empty
\* or whitespace-only, or that is issued while an exchange is in flight,
\* changes neither the history, the redo set nor the lock, and makes no
\* request.
C15_RejectedEditIsNoOp ==
    [][ ( /\ lastOp' = "saveEdit"
          /\ \/ ~HasId(messages, editingMessageId)
             \/ Trim(editingContent) = EmptyText
             \/ exchanges # {} )
           => UNCHANGED << messages, deletedMessages, isLoading, exchanges,
                           editingMessageId, editingContent >> ]_vars

\* a valid text was saved for a message that was undone after editing began
C15_Witness ==
    /\ lastOp = "saveEdit"
    /\ editingMessageId # NoId
    /\ ~HasId(messages, editingMessageId)
    /\ HasId(deletedMessages, editingMessageId)
    /\ Trim(editingContent) # EmptyText
    /\ exchanges = {}
    /\ ~isLoading

\* C16: an edit whose message id finds an assistant message in the history
\* is rejected: it changes neither the history, the redo set nor the lock,
\* and makes no request.
C16_EditUserOnly ==
    [][ ( /\ lastOp' = "saveEdit"
          /\ FindIndex(messages, editingMessageId) # 0
          /\ messages[FindIndex(messages, editingMessageId)].role = "assistant" )
           => UNCHANGED << messages, deletedMessages, isLoading, exchanges >> ]_vars

\* ------------------------------------------------- claims on the monitor

Keys(map) == { map[i][1] : i \in 1..Len(map) }

\* what the step appended to the history
Appended == SubSeq(messages', Len(messages) + 1, Len(messages'))

\* the appended messages that are about the source s
About(s) == { j \in 1..Len(Appended) : Appended[j].id[2] = s }

\* text occurs in content at position i
OccursAt(content, text, i) ==
    /\ i >= 1
    /\ i + Len(text) - 1 <= Len(content)
    /\ SubSeq(content, i, i + Len(text) - 1) = text

ObserveStep == lastOp' \in { "observe", "inject" }

\* C13: a redo that follows an observation which appended a message to the
\* history (so a message was appended after every undo still in the redo
\* set) changes neither the history nor the redo set.
C13_RedoAfterAppend ==
    [][ (lastOp = "inject" /\ lastOp' = "redo")
           => UNCHANGED << messages, deletedMessages >> ]_vars

\* the most recent message of the history about the source s, 0 if none
LatestAbout(s) ==
    LET about == { j \in 1..Len(messages) :
                      /\ messages[j].id[1] \in { "context", "context-removed",
                                                 "context-updated" }
                      /\ messages[j].id[2] = s }
    IN  IF about = {} THEN 0 ELSE CHOOSE j \in about : \A k \in about : k <= j

\* C17: once the monitor has run, for every connected source the most
\* recent context-event message about it in the history is a connect or an
\* update message that carries the text the source has now.
C17_NoStaleContext ==
    (mounted /\ Settled) =>
       \A i \in 1..Len(NewContexts) :
          LET s == NewContexts[i][1]
              text == NewContexts[i][2]
              j == LatestAbout(s)
          IN  /\ j # 0
              /\ \/ messages[j].content = ContextMessage(s, text).content
                 \/ \E old \in Texts :
                       messages[j].content = UpdateMessage(s, old, text).content

\* C18: a run of the monitor appends, for each source that is in the new
\* map and not in the recorded one, exactly one message: an assistant
\* message that starts with the context mark, announces the connection and
\* ends with the full text of the source.
C18_ConnectMessage ==
    [][ ObserveStep =>
           \A s \in Keys(NewContexts) \ Keys(connectedContextsRef) :
              /\ Cardinality(About(s)) = 1
              /\ \A j \in About(s) :
                    LET m == Appended[j]
                        text == Get(NewContexts, s)
                    IN  /\ m.role = "assistant"
                        /\ m.content[1] = ContextMark
                        /\ m.content[3] = " Connected: "
                        /\ OccursAt(m.content, text, Len(m.content) - Len(text) + 1) ]_vars

\* two sources were connected in one run, the first with a text
C18_Witness ==
    /\ lastOp = "inject"
    /\ Len(messages) = 2
    /\ messages[1].id[1] = "context"
    /\ messages[2].id[1] = "context"
    /\ messages[1].id[2] # messages[2].id[2]
    /\ Last(messages[1].content) = "p"

\* C19: a run of the monitor appends, for each source that is in the
\* recorded map and not in the new one, exactly one disconnect message, and
\* it quotes in full the text recorded for the source at the previous run.
C19_DisconnectMessage ==
    [][ ObserveStep =>
           \A s \in Keys(connectedContextsRef) \ Keys(NewContexts) :
              /\ Cardinality(About(s)) = 1
              /\ \A j \in About(s) :
                    LET m == Appended[j]
                        text == Get(connectedContextsRef, s)
                    IN  /\ m.role = "assistant"
                        /\ m.content[1] = ContextMark
                        /\ m.content[3] = " Disconnected: "
                        /\ \E i \in 1..Len(m.content) :
                              /\ m.content[i] = "---"
                              /\ OccursAt(m.content, text, i + 1)
                              /\ i + Len(text) + 1 <= Len(m.content)
                              /\ m.content[i + Len(text) + 1] = "---" ]_vars

\* a source recorded with the text p was disconnected after its node had
\* changed its text to q
C19_Witness ==
    /\ lastOp = "inject"
    /\ \E j \in 1..Len(messages) :
          /\ messages[j].id[1] = "context-removed"
          /\ \E i \in 1..Len(messages[j].content) : messages[j].content[i] = "p"
          /\ FindNode(messages[j].id[2]) # 0
          /\ nodes[FindNode(messages[j].id[2])].text = << "q" >>

\* C20: a run of the monitor appends, for each source in both maps whose
\* text differs and is not empty now, exactly one update message, which
\* quotes the recorded text and then the new text; for a source whose text
\* is the same in both maps it appends nothing.
C20_UpdateMessage ==
    [][ ObserveStep =>
           \A s \in Keys(connectedContextsRef) \cap Keys(NewContexts) :
              LET oldText == Get(connectedContextsRef, s)
                  newText == Get(NewContexts, s)
              IN  /\ (oldText # newText /\ newText # EmptyText)
                        => /\ Cardinality(About(s)) = 1
                           /\ \A j \in About(s) :
                                 LET m == Appended[j]
                                 IN  /\ m.role = "assistant"
                                     /\ m.content[1] = ContextMark
                                     /\ m.content[3] = " Updated: "
                                     /\ \E i \in 1..Len(m.content) :
                                           /\ OccursAt(m.content, << "---" >> \o oldText \o << "---" >>, i)
                                           /\ \E k \in (i + Len(oldText) + 2)..Len(m.content) :
                                                 OccursAt(m.content, << "---" >> \o newText \o << "---" >>, k)
                  /\ oldText = newText => About(s) = {} ]_vars

\* a source went from p to q while another one kept its text
C20_Witness ==
    /\ lastOp = "inject"
    /\ Len(messages) = 1
    /\ Len(connectedContextsRef) = 2
    /\ messages[1].id[1] = "context-updated"
    /\ \E i \in 1..Len(messages[1].content) : messages[1].content[i] = "p"
    /\ \E i \in 1..Len(messages[1].content) : messages[1].content[i] = "q"

\* ------------------------------------------- claims on one run of the monitor

\* the same source ids with the same texts
SameUpstream(a, b) ==
    /\ Keys(a) = Keys(b)
    /\ \A k \in Keys(a) : Get(a, k) = Get(b, k)

\* C21: a run of the monitor that finds the sources it recorded, with the
\* texts it recorded, appends no message and leaves the history and the redo
\* set as they are; and so does a run that follows another run with no
\* change of the canvas in between.
C21_IdleTickIsNoOp ==
    [][ ObserveStep =>
          /\ SameUpstream(NewContexts, connectedContextsRef)
                => messages' = messages /\ deletedMessages' = deletedMessages
          /\ lastOp \in { "observe", "inject" }
                => messages' = messages /\ deletedMessages' = deletedMessages ]_vars

\* a second run after a run that appended messages about recorded sources
C21_Witness ==
    /\ lastOp = "observe"
    /\ messages # << >>
    /\ connectedContextsRef # << >>

\* connect messages rank before disconnect messages, and these before
\* update messages
Rank(msg) ==
    CASE msg.id[1] = "context" -> 1
      [] msg.id[1] = "context-removed" -> 2
      [] msg.id[1] = "context-updated" -> 3
      [] OTHER -> 0

\* C22: the messages one run of the monitor appends are context-event
\* messages in the order connect messages, then disconnect messages, then
\* update messages.
C22_TickOrder ==
    [][ ObserveStep =>
          /\ \A i \in 1..Len(Appended) : Rank(Appended[i]) # 0
          /\ \A i \in 1..Len(Appended), j \in 1..Len(Appended) :
                i < j => Rank(Appended[i]) <= Rank(Appended[j]) ]_vars

\* one run appended a message of each kind
C22_Witness ==
    /\ lastOp = "inject"
    /\ Len(messages) = 3
    /\ Rank(messages[1]) = 1
    /\ Rank(messages[2]) = 2
    /\ Rank(messages[3]) = 3

\* C23: the map a run of the monitor computes has a key for the source of
\* every edge into the node whose source is on the canvas, whatever its id
\* (the initial chat node '1' included), and no key for a node without an
\* edge into the node.
C23_UpstreamKeys ==
    [][ ObserveStep =>
          /\ \A j \in 1..Len(edges) :
                FindNode(edges[j]) # 0 => HasKey(connectedContextsRef', edges[j])
          /\ \A k \in Keys(connectedContextsRef') :
                \E j \in 1..Len(edges) : edges[j] = k ]_vars

\* C24: an edge into the node whose source is not among the nodes keeps its
\* source in the map a run of the monitor computes, with the empty text, and
\* the run appends no disconnect message about that source.
C24_AbsentSourceKept ==
    [][ ObserveStep =>
          \A j \in 1..Len(edges) :
             (StartsWithNode(edges[j]) /\ FindNode(edges[j]) = 0) =>
                /\ HasKey(connectedContextsRef', edges[j])
                /\ Get(connectedContextsRef', edges[j]) = EmptyText
                /\ \A k \in About(edges[j]) : Rank(Appended[k]) # 2 ]_vars

\* one message as a paragraph, by its role
Rendered(msg) ==
    CASE msg.role = "user" -> << "**User:** " >> \o msg.content
      [] msg.role = "assistant" -> << "**Assistant:** " >> \o msg.content

\* the paragraphs of a history in history order, a blank line between two
RECURSIVE Snapshot(_)
Snapshot(h) ==
    IF h = << >> THEN EmptyText
    ELSE IF Len(h) = 1 THEN Rendered(h[1])
    ELSE Rendered(Head(h)) \o << "//" >> \o Snapshot(Tail(h))

C28_TickFrame ==
    [][ ObserveStep =>
          /\ nodes' = nodes
          /\ edges' = edges
          /\ nodeIdCounter' = nodeIdCounter
          /\ deletedMessages' = deletedMessages
          /\ isLoading' = isLoading
          /\ exchanges' = exchanges
          /\ SubSeq(messages', 1, Len(messages)) = messages ]_vars

\* a run appended messages next to a chat source with a history and an edge
\* whose source is gone
C28_Witness ==
    /\ lastOp = "inject"
    /\ messages # << >>
    /\ \E i \in 1..Len(nodes) : nodes[i].id = NodeId(2) /\ nodes[i].messages # << >>
    /\ \E j \in 1..Len(edges) : FindNode(edges[j]) = 0

\* ------------------------------------------------ claims on what a node exports

\* C26: typing in the textarea of a context node does not change what the
\* node exports: the map the monitor of a connected chat node computes is
\* the same before and after, so the monitor has nothing to append for it.
C26_TypingNotExported ==
    [][ lastOp' = "type" => NewContexts' = NewContexts ]_vars

\* ------------------------------------------------ claims on reply references

\* the history followed by the redo set
Held == messages \o deletedMessages

C29_DistinctIds ==
    \A i \in 1..Len(Held), j \in 1..Len(Held) :
       i # j => Held[i].id # Held[j].id

\* ------------------------------------------------- claims on the request

\* C30: the request the server makes to the model gateway carries the model,
\* the message list and the temperature the node sent, unchanged, and
\* stream = true, for every temperature of the slider.
C30_RequestForwarded ==
    \A x \in exchanges :
       x.gateway # << >> =>
          x.gateway[1] = [ model |-> x.model, messages |-> x.req,
                           stream |-> TRUE, temperature |-> x.temperature ]

\* the (role, content) pair of a message
Pair(msg) == [ role |-> msg.role, content |-> msg.content ]

\* C31: the message list of the request an accepted send makes is the
\* history before the send as (role, content) pairs in history order,
\* followed by the new user message; the list of the request an accepted
\* edit makes is the history up to the edited message, which comes last
\* with its new content; the placeholder of the exchange is in neither.
C31_RequestMessages ==
    [][ /\ (lastOp' = "send" /\ ~SendRejected) =>
              \E x \in exchanges' :
                 /\ x.pid = Last(messages').id
                 /\ x.phase = "requested"
                 /\ Len(x.req) = Len(messages) + 1
                 /\ \A i \in 1..Len(messages) : x.req[i] = Pair(messages[i])
                 /\ Last(x.req) = [ role |-> "user", content |-> Trim(input) ]
        /\ (lastOp' = "saveEdit" /\ ~EditRejected) =>
              \E x \in exchanges' :
                 /\ x.pid = Last(messages').id
                 /\ x.phase = "requested"
                 /\ Len(x.req) = FindIndex(messages, editingMessageId)
                 /\ \A i \in 1..(Len(x.req) - 1) : x.req[i] = Pair(messages[i])
                 /\ Last(x.req) =
                       [ role |-> messages[Len(x.req)].role,
                         content |-> Trim(editingContent) ] ]_vars

\* a send was made on a history that holds an assistant-role message
C31_Witness ==
    /\ lastOp = "send"
    /\ \E x \in exchanges :
          /\ x.kind = "send"
          /\ x.phase = "requested"
          /\ Len(x.req) = 2
          /\ x.req[1].role = "assistant"

\* ------------------------------------- claims on the map the monitor records

\* C32: a run of the monitor records the map it computed.  When the text of
\* a recorded source went from non-empty to empty the run appends no message
\* about that source, and when the text of a source recorded with the empty
\* text is non-empty the run appends one update message about it, whose
\* previous version is the empty text and whose new version is the text.
C32_RecordsCurrent ==
    [][ ObserveStep =>
          /\ connectedContextsRef' = NewContexts
          /\ \A s \in Keys(connectedContextsRef) \cap Keys(NewContexts) :
                LET oldText == Get(connectedContextsRef, s)
                    newText == Get(NewContexts, s)
                IN  /\ (oldText # EmptyText /\ newText = EmptyText) => About(s) = {}
                    /\ (oldText = EmptyText /\ newText # EmptyText) =>
                          /\ Cardinality(About(s)) = 1
                          /\ \A j \in About(s) :
                                /\ Rank(Appended[j]) = 3
                                /\ OccursAt(Appended[j].content,
                                            << "---", "---", "new version (use this):", "---" >>
                                               \o newText \o << "---" >>, 7) ]_vars

\* a source was announced with a text, lost it, and got another text: the
\* update message has the empty text as its previous version
C32_Witness ==
    /\ lastOp = "inject"
    /\ Len(messages) = 2
    /\ Rank(messages[1]) = 1
    /\ Len(messages[1].content) = 6
    /\ Rank(messages[2]) = 3
    /\ messages[2].id[2] = messages[1].id[2]
    /\ messages[2].content[7] = "---"
    /\ messages[2].content[8] = "---"

\* ------------------------------------------- claims on the placeholder id

\* C33: a step of an exchange (a chunk read, the end of its stream, its
\* failure) leaves every message whose id is not the placeholder id of the
\* exchange as it is and where it is relative to the others: the messages
\* before the placeholder, and a context-event message the monitor appended
\* while the exchange was in flight.
C33_OnlyPlaceholder ==
    [][ \A x \in exchanges :
           x \notin exchanges' =>
              RemoveId(messages', x.pid) = RemoveId(messages, x.pid) ]_vars

\* the reply was streamed in full into the placeholder, which has a
\* context-event message after it
C33_Witness ==
    /\ Len(messages) = 3
    /\ messages[2].id = TimeId(1)
    /\ messages[2].content = Reply
    /\ Rank(messages[3]) = 1
    /\ exchanges = {}

\* ------------------------------------------------- claims on quiescence

\* neither effect of the node has anything left to do
Quiescent ==
    /\ Settled
    /\ FindNode(ownId) # 0 => nodes[FindNode(ownId)].messages = messages

\* an edge leads from the node to itself
SelfEdge == \E i \in 1..Len(edges) : edges[i] = ownId

\* The step that keeps the runs going: when an edge leads from the node to
\* itself, the export of a history the monitor has appended to leaves the
\* monitor with a message to append.  It holds in every step of LoopSpec,
\* so the runs end only where the bound on the history ends them.
FeedsItself ==
    [][ (SelfEdge /\ lastOp = "inject" /\ nodes' # nodes) => ~Settled' ]_vars

RECURSIVE Reverse(_)
Reverse(s) == IF s = << >> THEN << >> ELSE Append(Reverse(Tail(s)), Head(s))

\* the history followed by the undone messages in the order redo restores them
Timeline == messages \o Reverse(deletedMessages)

\* C35: undo and redo conserve messages: the history followed by the undone
\* messages in reverse order is the same sequence before and after every
\* undo and every redo.
C35_Conserved ==
    [][ lastOp' \in { "undo", "redo" } =>
            messages' \o Reverse(deletedMessages') = Timeline ]_vars

\* two messages undone one after the other and the first of them restored
C35_Witness ==
    /\ lastOp = "redo"
    /\ Len(messages) = 2
    /\ Len(deletedMessages) = 1
    /\ messages[1].id # messages[2].id
    /\ messages[2].id # deletedMessages[1].id

\* ------------------------------------------------- claims on the relay

\* the texts of the fragments among what the stream handed out
RECURSIVE ChunkText(_)
ChunkText(w) ==
    IF w = << >> THEN EmptyText
    ELSE (IF Head(w).type = "chunk" THEN Head(w).data ELSE EmptyText)
         \o ChunkText(Tail(w))

RECURSIVE Concat(_)
Concat(ss) == IF ss = << >> THEN EmptyText ELSE Head(ss) \o Concat(Tail(ss))

\* everything the server has enqueued for x: what the client has read
\* already, then what is still in the stream
Enqueued(x) == Concat(x.rcvd) \o ChunkText(x.wire)

\* the non-empty delta contents the gateway has delivered for x, joined
Delivered(x) == SubSeq(Reply, 1, x.sent)

\* C36: the server relays the model stream faithfully: the fragments it
\* enqueues, joined in order, are the gateway's non-empty delta contents,
\* joined in order; a gateway error that is not an abort reaches the client
\* as the error of the stream, and a normal end as the end of the stream,
\* each after all the fragments.
C36_FaithfulRelay ==
    \A x \in exchanges :
        /\ Enqueued(x) = Delivered(x)
        /\ \A i \in 1..Len(x.wire) :
               x.wire[i].type # "chunk" => i = Len(x.wire)
        /\ x.srv = "streaming" =>
               \A i \in 1..Len(x.wire) : x.wire[i].type = "chunk"
        /\ x.srv = "errored" => x.wire # << >> /\ Last(x.wire) = StreamError
        /\ x.srv = "closed" => x.wire # << >> /\ Last(x.wire) = EndOfStream

\* the reply came in two deltas; the client has read the first fragment, the
\* second and the end of the stream wait in the stream
C36_Witness ==
    \E x \in exchanges :
        /\ x.srv = "closed"
        /\ x.sent = Len(Reply)
        /\ Len(x.rcvd) = 1
        /\ Len(x.wire) = 2
        /\ x.wire[1].type = "chunk"

\* ------------------------------------------------- claims on the canvas history

\* C37: the history of the canvas holds between 1 and 50 entries, and
\* 0 <= historyIndex < history.length, also after a change made after an
\* undo and after a change made when 50 entries are stored.
C37_HistoryBounds ==
    /\ Len(history) >= 1
    /\ Len(history) <= 50
    /\ 0 <= historyIndex
    /\ historyIndex < Len(history)

\* 50 entries were stored and a node was added: the oldest entry is gone
C37_Witness ==
    /\ lastOp = "change"
    /\ Len(history) = 50
    /\ historyIndex = 49
    /\ history[1].nodes # initialNodes
    /\ history[50].nodes = nodes

\* C38: a change of nodes or edges made by the undo or the redo of the
\* canvas adds no entry to the history, and every other change of nodes or
\* edges adds exactly one entry, the state it made, also when it is the
\* first change after an undo or redo that restored the state already shown.
C38_ChangesRecorded ==
    [][ /\ lastOp' \in { "canvasUndo", "canvasRedo" } => history' = history
        /\ lastOp' = "change" =>
               history' = Pushed(history, historyIndex, nodes', edges') ]_vars

====
